---- MODULE Spec2Model ----
(***************************************************************************)
(* haex-sync-server: the /sync routes (vault-key create and find, push,    *)
(* pull) over the two Postgres tables vault_keys and sync_logs.            *)
(*                                                                         *)
(* A table is a bag of rows: Postgres keeps a heap of tuples and only the  *)
(* unique indexes of the schema reject a second equal key.  The columns    *)
(* id (a random uuid) and created_at / updated_at (the clock) are database *)
(* defaults that no handler reads back into a decision; they are left out  *)
(* of the rows and of the response bodies.                                 *)
(*                                                                         *)
(* Every handler runs on one event loop and suspends at each await; an     *)
(* action is the code between two awaits, with the database statement the  *)
(* await waits for.  Requests of different slots interleave at the awaits. *)
(***************************************************************************)
EXTENDS Bags, FiniteSets, Integers, Sequences, TLC

(* ------------------------------ bounds -------------------------------- *)

\* Number of handlers that can wait at an await at the same time.
MaxInFlight == 2
\* Longest logs array of a push body.
MaxBatch == 2
\* Largest afterSequence of a pull body.
MaxAfter == 1
\* Largest limit of a pull body that the model draws (the schema allows 1000).
MaxLimit == 2
Users == {"u1", "u2"}
Vaults == {"v1", "v2"}

\* The bodies of POST /sync/vault-key, without the vaultId.
KeyInputs ==
  { [encryptedVaultKey |-> "K1", salt |-> "s1", nonce |-> "kn1"],
    [encryptedVaultKey |-> "K2", salt |-> "s2", nonce |-> "kn2"] }

\* The elements of the logs array of POST /sync/push: LogA and LogC have the
\* same haexTimestamp and different contents.
LogA == [encryptedData |-> "A", nonce |-> "n1", haexTimestamp |-> "t1"]
LogB == [encryptedData |-> "B", nonce |-> "n2", haexTimestamp |-> "t2"]
LogC == [encryptedData |-> "C", nonce |-> "n3", haexTimestamp |-> "t1"]
LogD == [encryptedData |-> "D", nonce |-> "n4", haexTimestamp |-> "t3"]

\* The logs arrays of at most MaxBatch of the given elements.
Batches(elems) == UNION { [1..k -> elems] : k \in 0..MaxBatch }

\* The validated requests the model draws.  User u1 sends the requests under
\* study; user u2 sends those that put a vault key and a log entry of its own
\* next to u1's, with the vaultId, the haexTimestamp and the sequence u1 uses.
VaultKeyPostInputs ==
  { [userId |-> u, vaultId |-> v, key |-> k] : u \in Users, v \in Vaults, k \in KeyInputs }
VaultKeyGetInputs ==
  { [userId |-> u, vaultId |-> v] : u \in Users, v \in Vaults }

\* Pushes with every kind of duplicate: inside a batch, of a stored entry,
\* with equal or different contents, in the same or another vault.
PushInputs ==
  { [userId |-> "u1", vaultId |-> "v1", logs |-> l] : l \in Batches({LogA, LogB, LogC}) }
    \cup { [userId |-> "u1", vaultId |-> "v2", logs |-> <<e>>] : e \in {LogA, LogB, LogC} }
    \cup { [userId |-> "u2", vaultId |-> "v1", logs |-> <<LogA>>] }

\* Pushes that fill the log for pulls.
FillInputs ==
  { [userId |-> "u1", vaultId |-> "v1", logs |-> l] :
      l \in { <<LogA>>, <<LogB>>, <<LogD>>, <<LogA, LogB>> } }
    \cup { [userId |-> "u1", vaultId |-> "v2", logs |-> <<LogB>>] }
    \cup { [userId |-> "u2", vaultId |-> "v1", logs |-> <<LogA>>] }
PullInputs ==
  { [userId |-> "u1", vaultId |-> "v1", afterSequence |-> a, limit |-> n] :
      n \in 1..MaxLimit, a \in { <<>> } \cup { <<k>> : k \in 0..MaxAfter } }
    \cup { [userId |-> "u1", vaultId |-> "v2", afterSequence |-> <<>>, limit |-> MaxLimit] }
    \cup { [userId |-> "u2", vaultId |-> v, afterSequence |-> <<>>, limit |-> MaxLimit] :
             v \in Vaults }

\* The requests drawn when all four routes run side by side.
MixVaultKeyPostInputs ==
  { [userId |-> "u1", vaultId |-> "v1", key |-> k] : k \in KeyInputs }
    \cup { [userId |-> "u2", vaultId |-> "v1", key |-> k] : k \in KeyInputs }
MixVaultKeyGetInputs ==
  { [userId |-> u, vaultId |-> v] : u \in Users, v \in Vaults }
MixPushInputs ==
  { [userId |-> "u1", vaultId |-> "v1", logs |-> l] : l \in { <<LogA>>, <<LogC, LogB>> } }
    \cup { [userId |-> "u1", vaultId |-> "v2", logs |-> <<LogB>>] }
    \cup { [userId |-> "u2", vaultId |-> "v1", logs |-> <<LogA>>] }
MixPullInputs ==
  { [userId |-> u, vaultId |-> v, afterSequence |-> <<>>, limit |-> n] :
      u \in Users, v \in Vaults, n \in 1..MaxLimit }

(* ------------------------------ helpers ------------------------------- *)

\* An optional value: <<>> is undefined, <<x>> is x.
Undefined == <<>>
Some(x) == <<x>>
IsDefined(o) == o # <<>>

Range(s) == { s[i] : i \in DOMAIN s }

\* The bag holding the elements of a sequence, each as often as it occurs.
BagOfSeq(s) == [ x \in Range(s) |-> Cardinality({ i \in DOMAIN s : s[i] = x }) ]

\* The rows of a table that are in the set rows, with their multiplicity.
Where(tbl, rows) == [ x \in BagToSet(tbl) \cap rows |-> tbl[x] ]

Min(a, b) == IF a < b THEN a ELSE b

(* ------------------------- db schema (tables) ------------------------- *)

\* The index declared with index(...) instead of uniqueIndex(...).
vault_keys_user_vault_idx_NotUnique(tbl) == TRUE

\* vault_keys: uniqueIndex("vault_keys_user_vault_idx").on(userId, vaultId).
\* TRUE when the table satisfies the index: no two rows share (userId, vaultId).
vault_keys_user_vault_idx(tbl) ==
  \A x \in BagToSet(tbl) :
    /\ tbl[x] = 1
    /\ \A y \in BagToSet(tbl) :
         (x.userId = y.userId /\ x.vaultId = y.vaultId) => x = y

\* The index declared on (userId, vaultId, haexTimestamp).
sync_logs_user_timestamp_idx_PerVault(tbl) ==
  \A x \in BagToSet(tbl) :
    /\ tbl[x] = 1
    /\ \A y \in BagToSet(tbl) :
         (x.userId = y.userId /\ x.vaultId = y.vaultId
            /\ x.haexTimestamp = y.haexTimestamp) => x = y

\* sync_logs: uniqueIndex("sync_logs_user_timestamp_idx").on(userId, haexTimestamp).
sync_logs_user_timestamp_idx(tbl) ==
  \A x \in BagToSet(tbl) :
    /\ tbl[x] = 1
    /\ \A y \in BagToSet(tbl) :
         (x.userId = y.userId /\ x.haexTimestamp = y.haexTimestamp) => x = y

\* A row of vault_keys as the handler builds it (NewVaultKey).
NewVaultKey(userId, vaultId, key) ==
  [ userId |-> userId, vaultId |-> vaultId,
    encryptedVaultKey |-> key.encryptedVaultKey,
    salt |-> key.salt, nonce |-> key.nonce ]

\* The rows numbered with currentSequence++ in place of ++currentSequence.
NewSyncLogs_PostIncrement(userId, vaultId, logs, currentSequence) ==
  [ i \in 1..Len(logs) |->
      [ userId |-> userId, vaultId |-> vaultId,
        encryptedData |-> logs[i].encryptedData, nonce |-> logs[i].nonce,
        haexTimestamp |-> logs[i].haexTimestamp,
        sequence |-> currentSequence + i - 1 ] ]

\* The rows of sync_logs as the handler builds them: logs.map with
\* sequence: ++currentSequence, so entry i gets currentSequence + i.
NewSyncLogs(userId, vaultId, logs, currentSequence) ==
  [ i \in 1..Len(logs) |->
      [ userId |-> userId, vaultId |-> vaultId,
        encryptedData |-> logs[i].encryptedData,
        nonce |-> logs[i].nonce,
        haexTimestamp |-> logs[i].haexTimestamp,
        sequence |-> currentSequence + i ] ]

(* --------------------------- db statements ---------------------------- *)

\* db.query.vaultKeys.findFirst({ where: userId = u AND vaultId = v }):
\* the possible results, Undefined when no row matches.
FindFirstVaultKey(keys, u, v) ==
  LET hit == { x \in BagToSet(keys) : x.userId = u /\ x.vaultId = v }
  IN  IF hit = {} THEN { Undefined } ELSE { Some(x) : x \in hit }

\* The insert with onConflictDoUpdate on (userId, vaultId): a stored row with
\* the key of the new row is replaced by it.
InsertVaultKey_Upsert(keys, row) ==
  [ ok |-> TRUE,
    tbl |-> Where(keys, { x \in BagToSet(keys) :
                            ~(x.userId = row.userId /\ x.vaultId = row.vaultId) })
              (+) SetToBag({row}) ]

\* db.insert(vaultKeys).values(row).returning(): one INSERT statement; the
\* unique index makes it throw and leave the table as it was.
InsertVaultKey(keys, row) ==
  LET new == keys (+) SetToBag({row})
  IN  IF vault_keys_user_vault_idx(new)
      THEN [ ok |-> TRUE, tbl |-> new ]
      ELSE [ ok |-> FALSE, tbl |-> keys ]

\* The findFirst without its where: the highest sequence of the whole table.
FindFirstMaxSequence_AllUsers(logs, u) ==
  LET all == BagToSet(logs)
  IN  IF all = {} THEN Undefined
      ELSE Some((CHOOSE x \in all : \A y \in all : y.sequence <= x.sequence).sequence)

\* db.query.syncLogs.findFirst({ where: userId = u, orderBy: desc(sequence) }):
\* the sequence of the row found, Undefined when the user has no row.
FindFirstMaxSequence(logs, u) ==
  LET own == { x \in BagToSet(logs) : x.userId = u }
  IN  IF own = {} THEN Undefined
      ELSE Some((CHOOSE x \in own : \A y \in own : y.sequence <= x.sequence).sequence)

\* The rows inserted one statement per row: the rows before the first rejected
\* one stay.
RECURSIVE InsertEach(_, _, _)
InsertEach(logs, rows, i) ==
  IF i > Len(rows) THEN [ ok |-> TRUE, tbl |-> logs ]
  ELSE LET new == logs (+) SetToBag({rows[i]})
       IN  IF sync_logs_user_timestamp_idx(new)
           THEN InsertEach(new, rows, i + 1)
           ELSE [ ok |-> FALSE, tbl |-> logs ]

InsertSyncLogs_RowByRow(logs, rows) ==
  IF Len(rows) > 0 THEN InsertEach(logs, rows, 1) ELSE [ ok |-> FALSE, tbl |-> logs ]

\* The insert with onConflictDoUpdate on (userId, haexTimestamp): a stored row
\* with the key of a new row is replaced by it.
InsertSyncLogs_Upsert(logs, rows) ==
  LET Kept(x) == \A i \in 1..Len(rows) :
                   ~(x.userId = rows[i].userId /\ x.haexTimestamp = rows[i].haexTimestamp)
      new == Where(logs, { row \in BagToSet(logs) : Kept(row) }) (+) BagOfSeq(rows)
  IN  IF Len(rows) > 0 /\ sync_logs_user_timestamp_idx(new)
      THEN [ ok |-> TRUE, tbl |-> new ]
      ELSE [ ok |-> FALSE, tbl |-> logs ]

\* db.insert(syncLogs).values(rows).returning(...): drizzle's values([]) throws
\* before any statement is sent; otherwise one multi-row INSERT statement,
\* which Postgres applies whole or, when a unique index rejects a row, not at
\* all.
InsertSyncLogs(logs, rows) ==
  LET new == logs (+) BagOfSeq(rows)
  IN  IF Len(rows) > 0 /\ sync_logs_user_timestamp_idx(new)
      THEN [ ok |-> TRUE, tbl |-> new ]
      ELSE [ ok |-> FALSE, tbl |-> logs ]

\* ORDER BY sequence LIMIT n over the bag hit of matching rows: the possible
\* results.  Each lists min(n, rows of hit) rows of hit in ascending order of
\* sequence and leaves out no row that sorts before the last one listed;
\* Postgres orders rows of equal sequence as it likes.
OrderBySequenceLimit(hit, n) ==
  LET m == Min(n, BagCardinality(hit))
  IN  { s \in [1..m -> BagToSet(hit)] :
          /\ \A i \in 1..m, j \in 1..m : i < j => s[i].sequence <= s[j].sequence
          /\ \A x \in Range(s) : BagOfSeq(s)[x] <= hit[x]
          /\ m > 0 => \A x \in BagToSet(hit (-) BagOfSeq(s)) :
                        s[m].sequence <= x.sequence }

\* The query without eq(syncLogs.userId, user.userId).
FindManySyncLogs_AnyUser(logs, u, v, afterSequence, n) ==
  LET Match(x) == /\ x.vaultId = v
                  /\ (IsDefined(afterSequence) => x.sequence > afterSequence[1])
  IN  OrderBySequenceLimit(Where(logs, { row \in BagToSet(logs) : Match(row) }), n)

\* db.query.syncLogs.findMany({ where: and(...whereConditions),
\* orderBy: sequence, limit: n }); gt(sequence, afterSequence) is among the
\* conditions when afterSequence !== undefined.
FindManySyncLogs(logs, u, v, afterSequence, n) ==
  LET Match(x) == /\ x.userId = u
                  /\ x.vaultId = v
                  /\ (IsDefined(afterSequence) => x.sequence > afterSequence[1])
  IN  OrderBySequenceLimit(Where(logs, { row \in BagToSet(logs) : Match(row) }), n)

(* ------------------------------ requests ------------------------------ *)

VARIABLES
  vaultKeysTbl,   \* the rows of table vault_keys
  syncLogsTbl,    \* the rows of table sync_logs
  inFlight,       \* the requests whose handlers wait at an await, a bag
  sent            \* the request that the last step answered, with its response, or Idle

vars == <<vaultKeysTbl, syncLogsTbl, inFlight, sent>>

\* No response yet; c.json(body, status) fills the fields its body has.
NoRes ==
  [ status |-> 0, error |-> "", message |-> "",
    vaultKey |-> Undefined, count |-> 0, logs |-> <<>>, hasMore |-> FALSE ]

\* A request record with nothing filled in; the value of sent when the last
\* step answered no request.
Idle ==
  [ pc |-> "idle", route |-> "none", authorization |-> Undefined, body |-> Undefined,
    userId |-> "none", vaultId |-> "none",
    key |-> Undefined, logs |-> <<>>, afterSequence |-> Undefined, limit |-> 0,
    currentSequence |-> 0, res |-> NoRes ]

\* return c.json(...): the handler ends with response res.
Return(q, res) == [ q EXCEPT !.pc = "done", !.res = res ]

InternalServerError == [ NoRes EXCEPT !.status = 500, !.error = "Internal server error" ]

(* ------------------------ POST /sync/vault-key ------------------------ *)

\* The handler up to its first await and the findFirst it waits for: 409 when
\* a vault key exists, else on to the insert.
VaultKeyPostCheck(q, keys) ==
  { IF IsDefined(existing)
    THEN Return(q, [ NoRes EXCEPT !.status = 409,
                       !.error = "Vault key already exists for this vault" ])
    ELSE [ q EXCEPT !.pc = "vaultKeyPostInsert" ] :
    existing \in FindFirstVaultKey(keys, q.userId, q.vaultId) }

\* The insert and the 201 response (id, vaultId, createdAt), or the catch.
VaultKeyPostInsert(q, keys) ==
  LET ins == InsertVaultKey(keys, NewVaultKey(q.userId, q.vaultId, q.key[1]))
  IN  [ keys |-> ins.tbl,
        q |-> IF ins.ok
              THEN Return(q, [ NoRes EXCEPT !.status = 201,
                                 !.message = "Vault key stored successfully",
                                 !.vaultKey = Some([ vaultId |-> q.vaultId ]) ])
              ELSE Return(q, InternalServerError) ]

(* --------------------- GET /sync/vault-key/:vaultId ------------------- *)

VaultKeyGet(q, keys) ==
  { IF ~IsDefined(vaultKey)
    THEN Return(q, [ NoRes EXCEPT !.status = 404, !.error = "Vault key not found" ])
    ELSE Return(q, [ NoRes EXCEPT !.status = 200,
                       !.vaultKey = Some([ vaultId |-> vaultKey[1].vaultId,
                                           encryptedVaultKey |-> vaultKey[1].encryptedVaultKey,
                                           salt |-> vaultKey[1].salt,
                                           nonce |-> vaultKey[1].nonce ]) ]) :
    vaultKey \in FindFirstVaultKey(keys, q.userId, q.vaultId) }

(* --------------------------- POST /sync/push -------------------------- *)

\* let currentSequence = maxSeqResult?.sequence || 0
PushReadMax(q, logs) ==
  LET maxSeqResult == FindFirstMaxSequence(logs, q.userId)
  IN  [ q EXCEPT !.pc = "pushInsert",
          !.currentSequence = IF IsDefined(maxSeqResult) THEN maxSeqResult[1] ELSE 0 ]

\* The response built from the submitted logs and their positions in place of
\* the rows that the insert returned.
PushInsert_AckPosition(q, logs) ==
  LET rows == NewSyncLogs(q.userId, q.vaultId, q.logs, q.currentSequence)
      ins == InsertSyncLogs(logs, rows)
      insertedLogs == [ i \in 1..Len(q.logs) |->
                          [ sequence |-> i,
                            haexTimestamp |-> q.logs[i].haexTimestamp ] ]
  IN  [ logs |-> ins.tbl,
        q |-> IF ins.ok
              THEN Return(q, [ NoRes EXCEPT !.status = 200,
                                 !.message = "Logs pushed successfully",
                                 !.count = Len(insertedLogs),
                                 !.logs = insertedLogs ])
              ELSE Return(q, InternalServerError) ]

\* The insert and the 200 response (count and, per inserted row in submission
\* order, sequence and haexTimestamp), or the catch.
PushInsert(q, logs) ==
  LET rows == NewSyncLogs(q.userId, q.vaultId, q.logs, q.currentSequence)
      ins == InsertSyncLogs(logs, rows)
      insertedLogs == [ i \in 1..Len(rows) |->
                          [ sequence |-> rows[i].sequence,
                            haexTimestamp |-> rows[i].haexTimestamp ] ]
  IN  [ logs |-> ins.tbl,
        q |-> IF ins.ok
              THEN Return(q, [ NoRes EXCEPT !.status = 200,
                                 !.message = "Logs pushed successfully",
                                 !.count = Len(insertedLogs),
                                 !.logs = insertedLogs ])
              ELSE Return(q, InternalServerError) ]

(* --------------------------- POST /sync/pull -------------------------- *)

\* c.json({ logs: returnLogs.map(...), hasMore })
PullResponse(returnLogs, hasMore) ==
  [ NoRes EXCEPT !.status = 200,
      !.logs = [ i \in 1..Len(returnLogs) |->
                   [ encryptedData |-> returnLogs[i].encryptedData,
                     nonce |-> returnLogs[i].nonce,
                     haexTimestamp |-> returnLogs[i].haexTimestamp,
                     sequence |-> returnLogs[i].sequence ] ],
      !.hasMore = hasMore ]

\* The handler without logs.slice(0, limit).
Pull_NoSlice(q, tbl) ==
  { Return(q, PullResponse(logs, Len(logs) > q.limit)) :
    logs \in FindManySyncLogs(tbl, q.userId, q.vaultId, q.afterSequence, q.limit + 1) }

\* The handler with hasMore = logs.length >= limit.
Pull_HasMoreAtLimit(q, tbl) ==
  { Return(q, PullResponse(SubSeq(logs, 1, Min(q.limit, Len(logs))), Len(logs) >= q.limit)) :
    logs \in FindManySyncLogs(tbl, q.userId, q.vaultId, q.afterSequence, q.limit + 1) }

\* findMany with limit + 1, hasMore = logs.length > limit, logs.slice(0, limit).
Pull(q, tbl) ==
  { LET hasMore == Len(logs) > q.limit
        returnLogs == SubSeq(logs, 1, Min(q.limit, Len(logs)))
    IN  Return(q, PullResponse(returnLogs, hasMore)) :
    logs \in FindManySyncLogs(tbl, q.userId, q.vaultId, q.afterSequence, q.limit + 1) }

(* ------------------------------ actions ------------------------------- *)

Init ==
  /\ vaultKeysTbl = EmptyBag
  /\ syncLogsTbl = EmptyBag
  /\ inFlight = EmptyBag
  /\ sent = Idle

\* A request arrives and its handler runs to q: either it waits at its next
\* await, or it has returned and its response is sent.
Enters(q) ==
  IF q.pc = "done"
  THEN inFlight' = inFlight /\ sent' = q
  ELSE /\ BagCardinality(inFlight) < MaxInFlight
       /\ inFlight' = inFlight (+) SetToBag({q})
       /\ sent' = Idle

\* The waiting handler p resumes and runs to q, which has returned.
Resumes(p, q) ==
  /\ inFlight' = inFlight (-) SetToBag({p})
  /\ sent' = q

\* POST /sync/vault-key: a request that passed authMiddleware as userId and
\* the validator enters the handler, and its findFirst runs.
PostVaultKey(inputs) ==
  /\ \E in \in inputs :
       \E q \in VaultKeyPostCheck(
                  [ Idle EXCEPT !.pc = "vaultKeyPostCheck", !.route = "POST /vault-key",
                      !.userId = in.userId, !.vaultId = in.vaultId, !.key = Some(in.key) ],
                  vaultKeysTbl) :
         Enters(q)
  /\ UNCHANGED <<vaultKeysTbl, syncLogsTbl>>

\* POST /sync/vault-key: the insert runs.
PostVaultKeyInsert ==
  /\ \E p \in BagToSet(inFlight) :
       /\ p.pc = "vaultKeyPostInsert"
       /\ LET o == VaultKeyPostInsert(p, vaultKeysTbl)
          IN  /\ Resumes(p, o.q)
              /\ vaultKeysTbl' = o.keys
  /\ UNCHANGED syncLogsTbl

\* GET /sync/vault-key/:vaultId
GetVaultKey(inputs) ==
  /\ \E in \in inputs :
       \E q \in VaultKeyGet(
                  [ Idle EXCEPT !.pc = "vaultKeyGet", !.route = "GET /vault-key/:vaultId",
                      !.userId = in.userId, !.vaultId = in.vaultId ],
                  vaultKeysTbl) :
         Enters(q)
  /\ UNCHANGED <<vaultKeysTbl, syncLogsTbl>>

\* POST /sync/push: the request enters the handler and its findFirst runs.
PostPush(inputs) ==
  /\ \E in \in inputs :
       Enters(PushReadMax(
                [ Idle EXCEPT !.pc = "pushReadMax", !.route = "POST /push",
                    !.userId = in.userId, !.vaultId = in.vaultId, !.logs = in.logs ],
                syncLogsTbl))
  /\ UNCHANGED <<vaultKeysTbl, syncLogsTbl>>

\* POST /sync/push: the insert runs.
PostPushInsert ==
  /\ \E p \in BagToSet(inFlight) :
       /\ p.pc = "pushInsert"
       /\ LET o == PushInsert(p, syncLogsTbl)
          IN  /\ Resumes(p, o.q)
              /\ syncLogsTbl' = o.logs
  /\ UNCHANGED vaultKeysTbl

\* POST /sync/pull; limit has the schema's default when the body leaves it
\* out, so the handler always sees a number.
PostPull(inputs) ==
  /\ \E in \in inputs :
       \E q \in Pull([ Idle EXCEPT !.pc = "pull", !.route = "POST /pull",
                         !.userId = in.userId, !.vaultId = in.vaultId,
                         !.afterSequence = in.afterSequence, !.limit = in.limit ],
                     syncLogsTbl) :
         Enters(q)
  /\ UNCHANGED <<vaultKeysTbl, syncLogsTbl>>

\* The vault-key routes alone.
NextKeys ==
  \/ PostVaultKey(VaultKeyPostInputs)
  \/ PostVaultKeyInsert
  \/ GetVaultKey(VaultKeyGetInputs)

SpecKeys == Init /\ [][NextKeys]_vars

\* POST /sync/push alone.
NextPush ==
  \/ PostPush(PushInputs)
  \/ PostPushInsert

SpecPush == Init /\ [][NextPush]_vars

\* The log routes.
NextLogs ==
  \/ PostPush(FillInputs)
  \/ PostPushInsert
  \/ PostPull(PullInputs)

SpecLogs == Init /\ [][NextLogs]_vars

\* All four routes.
Next ==
  \/ PostVaultKey(MixVaultKeyPostInputs)
  \/ PostVaultKeyInsert
  \/ GetVaultKey(MixVaultKeyGetInputs)
  \/ PostPush(MixPushInputs)
  \/ PostPushInsert
  \/ PostPull(MixPullInputs)

Spec == Init /\ [][Next]_vars

(* ------------------------------- claims ------------------------------- *)

\* The stored log entries of user u, and the stored vault keys of user u.
LogsOf(u) == Where(syncLogsTbl, { x \in BagToSet(syncLogsTbl) : x.userId = u })
KeysOf(u) == Where(vaultKeysTbl, { x \in BagToSet(vaultKeysTbl) : x.userId = u })

\* sent is the answer to a request of the given route.
Answered(route) == sent.pc = "done" /\ sent.route = route

\* C1: in every state, for every user, the sequence numbers of the user's
\* stored log entries are 1..n for the n entries stored, each number on exactly
\* one entry: no duplicates and no gaps, also when pushes interleave.
C1_SequencesContiguous ==
  \A u \in Users :
    LET own == LogsOf(u)
    IN  /\ \A x \in BagToSet(own) : own[x] = 1
        /\ \A x, y \in BagToSet(own) : x.sequence = y.sequence => x = y
        /\ { x.sequence : x \in BagToSet(own) } = 1..BagCardinality(own)

\* The stored entries a pull request q asks for: those of q's user and vault
\* with sequence > afterSequence, all of them when afterSequence is left out.
Qualifying(q) ==
  LET Asked(x) == /\ x.userId = q.userId
                  /\ x.vaultId = q.vaultId
                  /\ (q.afterSequence = <<>> \/ x.sequence > q.afterSequence[1])
  IN  Where(syncLogsTbl, { row \in BagToSet(syncLogsTbl) : Asked(row) })

\* The stored entry that a log of a pull response to q stands for.
EntryOf(q, log) ==
  [ userId |-> q.userId, vaultId |-> q.vaultId,
    encryptedData |-> log.encryptedData, nonce |-> log.nonce,
    haexTimestamp |-> log.haexTimestamp, sequence |-> log.sequence ]

\* C2: a pull returns min(limit, n) of the n qualifying stored entries, each
\* at most as often as it is stored, in ascending order of sequence, and every
\* qualifying entry it leaves out has a sequence not below the last returned:
\* the returned logs are the first min(limit, n) by sequence.
C2_PullReturnsFirstPage ==
  Answered("POST /pull") =>
    LET logs == sent.res.logs
        got == BagOfSeq([ i \in 1..Len(logs) |-> EntryOf(sent, logs[i]) ])
        all == Qualifying(sent)
    IN  /\ Len(logs) = Min(sent.limit, BagCardinality(all))
        /\ got \sqsubseteq all
        /\ \A i \in 1..Len(logs) - 1 : logs[i].sequence <= logs[i + 1].sequence
        /\ \A x \in BagToSet(all (-) got) : logs[Len(logs)].sequence <= x.sequence

\* A pull with afterSequence that returns a full page and leaves qualifying
\* entries out, while the store holds an entry of the same user and vault at
\* or below afterSequence and an entry of another user in the same vault.
C2_Witness ==
  /\ Answered("POST /pull")
  /\ sent.afterSequence # <<>>
  /\ Len(sent.res.logs) = sent.limit
  /\ BagCardinality(Qualifying(sent)) > sent.limit
  /\ \E x \in BagToSet(syncLogsTbl) :
       x.userId = sent.userId /\ x.vaultId = sent.vaultId
         /\ x.sequence <= sent.afterSequence[1]
  /\ \E x \in BagToSet(syncLogsTbl) :
       x.userId # sent.userId /\ x.vaultId = sent.vaultId

\* C3: hasMore of a pull response is true exactly when more than limit stored
\* entries qualify.
C3_HasMoreIffMoreThanLimit ==
  Answered("POST /pull") =>
    (sent.res.hasMore <=> BagCardinality(Qualifying(sent)) > sent.limit)

\* A pull for which exactly limit entries qualify, answered hasMore = false.
C3_Witness ==
  /\ Answered("POST /pull")
  /\ BagCardinality(Qualifying(sent)) = sent.limit
  /\ ~sent.res.hasMore

\* C4: a vault-key create request is answered 201, and then the store holds
\* the record with the request's data, or it is answered 409 Conflict; so of
\* two creates for one (userId, vaultId), interleaved or not, the one that
\* stores nothing gets Conflict.
C4_CreateLoserGetsConflict ==
  Answered("POST /vault-key") =>
    \/ /\ sent.res.status = 201
       /\ NewVaultKey(sent.userId, sent.vaultId, sent.key[1]) \in BagToSet(vaultKeysTbl)
    \/ sent.res.status = 409

\* C6: in every state the store holds at most one vault key for each
\* (userId, vaultId).
C6_OneVaultKeyPerUserVault ==
  \A u \in Users, v \in Vaults :
    BagCardinality(Where(vaultKeysTbl, { x \in BagToSet(vaultKeysTbl) :
                                           x.userId = u /\ x.vaultId = v })) <= 1

\* Two creates for one (userId, vaultId) interleaved: the insert of the second
\* was rejected while the first one's record is stored.
C6_Witness ==
  /\ Answered("POST /vault-key")
  /\ sent.res.status = 500
  /\ \E x \in BagToSet(vaultKeysTbl) :
       /\ x.userId = sent.userId /\ x.vaultId = sent.vaultId
       /\ x.encryptedVaultKey # sent.key[1].encryptedVaultKey

\* C7: in every state no two stored log entries of one user have the same
\* haexTimestamp.
C7_TimestampUniquePerUser ==
  \A u \in Users :
    \A x \in BagToSet(LogsOf(u)) :
      BagCardinality(Where(LogsOf(u), { y \in BagToSet(LogsOf(u)) :
                                          y.haexTimestamp = x.haexTimestamp })) = 1

\* entry i of the logs of push request q has a haexTimestamp that the store
\* holds for q's user, or that an earlier entry of the logs has.
IsDuplicate(q, i, tbl) ==
  \/ \E x \in BagToSet(tbl) :
       x.userId = q.userId /\ x.haexTimestamp = q.logs[i].haexTimestamp
  \/ \E j \in 1..(i - 1) : q.logs[j].haexTimestamp = q.logs[i].haexTimestamp

\* A push was rejected whose duplicate is stored in another vault of the user,
\* with other contents.
C7_Witness ==
  /\ Answered("POST /push")
  /\ sent.res.status # 200
  /\ \E i \in 1..Len(sent.logs) : \E x \in BagToSet(syncLogsTbl) :
       /\ x.userId = sent.userId
       /\ x.haexTimestamp = sent.logs[i].haexTimestamp
       /\ x.vaultId # sent.vaultId
       /\ x.encryptedData # sent.logs[i].encryptedData

\* C9: a push with an entry whose haexTimestamp is stored for the user or
\* repeated in the batch fails and leaves the Log Store as it was.
C9_PushAtomic ==
  [][ (sent'.pc = "done" /\ sent'.route = "POST /push"
         /\ \E i \in 1..Len(sent'.logs) : IsDuplicate(sent', i, syncLogsTbl))
        => (sent'.res.status # 200 /\ syncLogsTbl' = syncLogsTbl) ]_vars

\* A rejected push of two entries, the first new and the second a duplicate
\* of a stored one; none of the two is stored.
C9_Witness ==
  /\ Answered("POST /push")
  /\ sent.res.status # 200
  /\ Len(sent.logs) = 2
  /\ ~IsDuplicate(sent, 1, syncLogsTbl)
  /\ IsDuplicate(sent, 2, syncLogsTbl)
  /\ sent.logs[1].haexTimestamp # sent.logs[2].haexTimestamp

\* C10: a push rejected for an entry whose haexTimestamp is already stored for
\* the user is answered 409 Conflict.
C10_DuplicateTimestampIsConflict ==
  (/\ Answered("POST /push")
   /\ sent.res.status # 200
   /\ \E i \in 1..Len(sent.logs) : \E x \in BagToSet(syncLogsTbl) :
        x.userId = sent.userId /\ x.haexTimestamp = sent.logs[i].haexTimestamp)
    => sent.res.status = 409

\* The request q as it entered its handler.
Entry(q) ==
  [ q EXCEPT !.res = NoRes, !.currentSequence = 0,
      !.pc = CASE q.route = "POST /vault-key" -> "vaultKeyPostCheck"
               [] q.route = "GET /vault-key/:vaultId" -> "vaultKeyGet"
               [] q.route = "POST /push" -> "pushReadMax"
               [] OTHER -> "pull" ]

\* Where the handler at p can be after its next statement, run on the tables
\* keys and logs.
Outcomes(p, keys, logs) ==
  CASE p.pc = "vaultKeyPostCheck" -> VaultKeyPostCheck(p, keys)
    [] p.pc = "vaultKeyPostInsert" -> { VaultKeyPostInsert(p, keys).q }
    [] p.pc = "vaultKeyGet" -> VaultKeyGet(p, keys)
    [] p.pc = "pushReadMax" -> { PushReadMax(p, logs) }
    [] p.pc = "pushInsert" -> { PushInsert(p, logs).q }
    [] OTHER -> Pull(p, logs)

\* C5: every step of a request of user A, and so the response it ends with,
\* is one that the handler takes on the tables cut down to A's own vault keys
\* and log entries: what other users have stored changes nothing.  A vault key
\* or log entry in a response to A is a stored one owned by A.
C5_Isolation ==
  [][ LET q == IF sent'.pc = "done" THEN sent'
               ELSE CHOOSE x \in BagToSet(inFlight' (-) inFlight) : TRUE
          p == IF sent'.pc = "done" /\ inFlight' # inFlight
               THEN CHOOSE x \in BagToSet(inFlight (-) inFlight') : TRUE
               ELSE Entry(q)
      IN  /\ q \in Outcomes(p, KeysOf(p.userId), LogsOf(p.userId))
          /\ \A i \in 1..(IF q.route = "POST /pull" THEN Len(q.res.logs) ELSE 0) :
               EntryOf(q, q.res.logs[i]) \in BagToSet(LogsOf(q.userId))
          /\ (q.route = "GET /vault-key/:vaultId" /\ q.res.vaultKey # <<>>) =>
               \E x \in BagToSet(KeysOf(q.userId)) :
                 q.res.vaultKey[1] =
                   [ vaultId |-> x.vaultId, encryptedVaultKey |-> x.encryptedVaultKey,
                     salt |-> x.salt, nonce |-> x.nonce ]
    ]_vars

\* User u1 pulls a vault in which u2 has stored an entry too, with the same
\* sequence, and gets its own.
C5_Witness ==
  /\ Answered("POST /pull")
  /\ Len(sent.res.logs) > 0
  /\ \E x \in BagToSet(syncLogsTbl) :
       /\ x.userId # sent.userId
       /\ x.vaultId = sent.vaultId
       /\ x.sequence = sent.res.logs[1].sequence

\* C8: every stored log entry stays stored, with all its fields, in every
\* later state: each step keeps every row of sync_logs, as often as it was
\* there.
C8_AppendOnly ==
  [][ syncLogsTbl \sqsubseteq syncLogsTbl' ]_vars

\* The log holds an entry while a push with the haexTimestamp of that entry
\* and other contents was answered, vault keys are stored, and pushes wait.
C8_Witness ==
  /\ Answered("POST /push")
  /\ \E i \in 1..Len(sent.logs) : \E x \in BagToSet(syncLogsTbl) :
       /\ x.userId = sent.userId
       /\ x.haexTimestamp = sent.logs[i].haexTimestamp
       /\ x.encryptedData # sent.logs[i].encryptedData
  /\ vaultKeysTbl # EmptyBag

\* C11: a pull answered right after a pull of the same user with the same
\* vaultId, afterSequence and limit, with no push committed between the two,
\* returns the same logs in the same order and the same hasMore.
C11_PullIdempotent ==
  [][ (/\ Answered("POST /pull")
       /\ sent'.pc = "done" /\ sent'.route = "POST /pull"
       /\ Entry(sent') = Entry(sent)
       /\ syncLogsTbl' = syncLogsTbl)
        => sent'.res = sent.res ]_vars

\* C14: a push whose logs list is empty is answered with success, count 0 and
\* an empty list of stored entries (the log is left as it was: the answer of
\* a push that stored nothing).
C14_EmptyPushSucceeds ==
  (Answered("POST /push") /\ Len(sent.logs) = 0)
    => /\ sent.res.status = 200
       /\ sent.res.count = 0
       /\ sent.res.logs = <<>>

\* The vault-key rows of user u for vault v.
KeyRows(tbl, u, v) == { x \in BagToSet(tbl) : x.userId = u /\ x.vaultId = v }

\* C15: a vault key row is stored only by a create answered 201 and holds the
\* encryptedVaultKey, salt and nonce of that request; no later request
\* (create, find, push or pull) removes or changes it; a find is answered 404
\* while the user has no row for the vaultId and otherwise 200 with the
\* fields of the stored row.
C15_FindReturnsCreatedKey ==
  [][ /\ vaultKeysTbl \sqsubseteq vaultKeysTbl'
      /\ \A x \in BagToSet(vaultKeysTbl') \ BagToSet(vaultKeysTbl) :
           /\ sent'.pc = "done" /\ sent'.route = "POST /vault-key"
           /\ sent'.res.status = 201
           /\ x = NewVaultKey(sent'.userId, sent'.vaultId, sent'.key[1])
      /\ (sent'.pc = "done" /\ sent'.route = "POST /vault-key" /\ sent'.res.status = 201)
           => NewVaultKey(sent'.userId, sent'.vaultId, sent'.key[1])
                \in BagToSet(vaultKeysTbl') \ BagToSet(vaultKeysTbl)
      /\ (sent'.pc = "done" /\ sent'.route = "GET /vault-key/:vaultId")
           => LET hit == KeyRows(vaultKeysTbl', sent'.userId, sent'.vaultId)
              IN  IF hit = {}
                  THEN sent'.res.status = 404
                  ELSE /\ sent'.res.status = 200
                       /\ \A x \in hit :
                            sent'.res.vaultKey =
                              Some([ vaultId |-> x.vaultId,
                                     encryptedVaultKey |-> x.encryptedVaultKey,
                                     salt |-> x.salt,
                                     nonce |-> x.nonce ]) ]_vars

\* A find answered with the stored key while a create of the same user for the
\* same vault with another key is still waiting for its insert, and pushes
\* have been stored.
C15_Witness ==
  /\ Answered("GET /vault-key/:vaultId")
  /\ sent.res.status = 200
  /\ syncLogsTbl # EmptyBag
  /\ \E p \in BagToSet(inFlight) :
       /\ p.route = "POST /vault-key"
       /\ p.userId = sent.userId /\ p.vaultId = sent.vaultId
       /\ p.key[1].encryptedVaultKey # sent.res.vaultKey[1].encryptedVaultKey

(* ------------------ pushes of one user, one at a time ------------------ *)

\* The push bodies of the one-at-a-time specification.
SerialPushInputs ==
  [ userId : {"u1"}, vaultId : {"v1"},
    logs : { <<LogA>>, <<LogA, LogB>>, <<LogB, LogD>>, <<LogD, LogB>> } ]
    \cup [ userId : {"u1"}, vaultId : {"v2"}, logs : { <<LogA>>, <<LogD>>, <<LogC, LogB>> } ]
    \cup [ userId : {"u2"}, vaultId : {"v1"}, logs : { <<LogA>>, <<LogB>> } ]

\* POST /sync/push by a client that sends a push only when none of its
\* user's pushes is in the handler; pushes of different users still overlap.
PostPushAlone(inputs) ==
  /\ \E in \in inputs :
       /\ \A p \in BagToSet(inFlight) : p.userId # in.userId
       /\ Enters(PushReadMax(
                   [ Idle EXCEPT !.pc = "pushReadMax", !.route = "POST /push",
                       !.userId = in.userId, !.vaultId = in.vaultId, !.logs = in.logs ],
                   syncLogsTbl))
  /\ UNCHANGED <<vaultKeysTbl, syncLogsTbl>>

NextSerial ==
  \/ PostPushAlone(SerialPushInputs)
  \/ PostPushInsert

SpecSerial == Init /\ [][NextSerial]_vars

\* The highest sequence among the stored entries of user u, 0 if none.
MaxSequenceOf(tbl, u) ==
  LET seqs == { x.sequence : x \in { y \in BagToSet(tbl) : y.userId = u } }
  IN  IF seqs = {} THEN 0 ELSE CHOOSE s \in seqs : \A t \in seqs : t <= s

\* C16: when no other push of the user overlaps it, a push answered with
\* success has k >= 1 entries, adds exactly those entries to the log with
\* sequences m+1..m+k in submission order, m being the user's highest
\* sequence over all vaults before it (0 if none), and its response has
\* count = k and lists those sequences with the submitted haexTimestamps in
\* the same order.
C16_PushAssignsNextSequences ==
  [][ (sent'.pc = "done" /\ sent'.route = "POST /push" /\ sent'.res.status = 200)
        => LET m == MaxSequenceOf(syncLogsTbl, sent'.userId)
               k == Len(sent'.logs)
               stored == [ i \in 1..k |->
                             [ userId |-> sent'.userId, vaultId |-> sent'.vaultId,
                               encryptedData |-> sent'.logs[i].encryptedData,
                               nonce |-> sent'.logs[i].nonce,
                               haexTimestamp |-> sent'.logs[i].haexTimestamp,
                               sequence |-> m + i ] ]
           IN  /\ k >= 1
               /\ syncLogsTbl' = syncLogsTbl (+) BagOfSeq(stored)
               /\ sent'.res.count = k
               /\ sent'.res.logs = [ i \in 1..k |->
                                       [ sequence |-> m + i,
                                         haexTimestamp |-> sent'.logs[i].haexTimestamp ] ] ]_vars

\* A push of two entries to one vault answered with sequences 2 and 3, the
\* user's entry with sequence 1 being in another vault, while the other user
\* has an entry with sequence 1 as well.
C16_Witness ==
  /\ Answered("POST /push")
  /\ sent.res.status = 200
  /\ sent.res.count = 2
  /\ sent.res.logs[1].sequence = 2 /\ sent.res.logs[2].sequence = 3
  /\ \E x \in BagToSet(syncLogsTbl) :
       x.userId = sent.userId /\ x.vaultId # sent.vaultId /\ x.sequence = 1
  /\ \E x \in BagToSet(syncLogsTbl) : x.userId # sent.userId /\ x.sequence = 1

(* ---------------------- a client paging through a vault ---------------- *)

\* The pages a client can end up with when it pulls (u, v) from the log tbl
\* page after page: the first pull with the given afterSequence, every
\* further one with the highest sequence received so far, until a response
\* has hasMore = false. received is what the earlier pulls returned.
RECURSIVE PullUntilNoMore(_, _, _, _, _, _)
PullUntilNoMore(tbl, u, v, limit, afterSequence, received) ==
  UNION { LET got == received \o r.res.logs
              highest == CHOOSE s \in { got[i].sequence : i \in DOMAIN got } :
                           \A i \in DOMAIN got : got[i].sequence <= s
          IN  IF r.res.hasMore
              THEN PullUntilNoMore(tbl, u, v, limit, Some(highest), got)
              ELSE { got } :
          r \in Pull([ Idle EXCEPT !.pc = "pull", !.route = "POST /pull",
                         !.userId = u, !.vaultId = v,
                         !.afterSequence = afterSequence, !.limit = limit ],
                     tbl) }

\* C19: in every reachable state of the log, a client that pulls one of its
\* vaults page after page, the first pull without afterSequence and every
\* further one with the highest sequence received so far, until hasMore is
\* false, has received every stored entry of that user and vault exactly
\* once, whatever pushes (concurrent ones included) built the log.
C19_PaginationComplete ==
  \A u \in Users, v \in Vaults, limit \in 1..MaxLimit :
    \A got \in PullUntilNoMore(syncLogsTbl, u, v, limit, Undefined, <<>>) :
      BagOfSeq([ i \in DOMAIN got |->
                   [ userId |-> u, vaultId |-> v,
                     encryptedData |-> got[i].encryptedData, nonce |-> got[i].nonce,
                     haexTimestamp |-> got[i].haexTimestamp,
                     sequence |-> got[i].sequence ] ])
        = Where(syncLogsTbl, { x \in BagToSet(syncLogsTbl) :
                                 x.userId = u /\ x.vaultId = v })

\* C20: a push answered with success has stored, in that step, one entry per
\* acknowledged (sequence, haexTimestamp), with that sequence and the
\* submitted encryptedData, nonce and haexTimestamp; entries enter the log in
\* no other way and stay in it unchanged; and a pull of the same user and
\* vault returns, with its stored sequence and contents, every stored entry
\* whose sequence is above afterSequence and which the page reaches, that is,
\* the page is the last one or ends at a higher sequence.
C20_AcknowledgedEntriesReturned ==
  [][ /\ syncLogsTbl \sqsubseteq syncLogsTbl'
      /\ syncLogsTbl' # syncLogsTbl
           => sent'.pc = "done" /\ sent'.route = "POST /push" /\ sent'.res.status = 200
      /\ (sent'.pc = "done" /\ sent'.route = "POST /push" /\ sent'.res.status = 200)
           => /\ Len(sent'.res.logs) = Len(sent'.logs)
              /\ \A i \in DOMAIN sent'.logs :
                   sent'.res.logs[i].haexTimestamp = sent'.logs[i].haexTimestamp
              /\ syncLogsTbl' = syncLogsTbl (+)
                   BagOfSeq([ i \in DOMAIN sent'.logs |->
                                [ userId |-> sent'.userId, vaultId |-> sent'.vaultId,
                                  encryptedData |-> sent'.logs[i].encryptedData,
                                  nonce |-> sent'.logs[i].nonce,
                                  haexTimestamp |-> sent'.logs[i].haexTimestamp,
                                  sequence |-> sent'.res.logs[i].sequence ] ])
      /\ (sent'.pc = "done" /\ sent'.route = "POST /pull")
           => LET logs == sent'.res.logs
                  Reached(x) ==
                    /\ x.userId = sent'.userId /\ x.vaultId = sent'.vaultId
                    /\ (IsDefined(sent'.afterSequence) => x.sequence > sent'.afterSequence[1])
                    /\ \/ ~sent'.res.hasMore
                       \/ Len(logs) > 0 /\ x.sequence < logs[Len(logs)].sequence
              IN  /\ sent'.res.status = 200
                  /\ \A x \in BagToSet(syncLogsTbl') :
                       Reached(x) => \E i \in DOMAIN logs : EntryOf(sent', logs[i]) = x ]_vars

\* A pull with afterSequence = 1 and limit 2 answered with the acknowledged
\* entries of sequence 2 and 3, the entry of sequence 1 being stored as well.
C20_Witness ==
  /\ Answered("POST /pull")
  /\ sent.afterSequence = Some(1)
  /\ Len(sent.res.logs) = 2
  /\ sent.res.logs[1].sequence = 2 /\ sent.res.logs[2].sequence = 3
  /\ \E x \in BagToSet(syncLogsTbl) :
       x.userId = sent.userId /\ x.vaultId = sent.vaultId /\ x.sequence = 1

(* ------------------- authMiddleware and the validators ----------------- *)

\* Strings that the code takes apart are sequences of characters.
Bearer == <<"B", "e", "a", "r", "e", "r", " ">>
Basic == <<"B", "a", "s", "i", "c", " ">>

\* s.startsWith(prefix) and s.substring(n)
StartsWith(s, prefix) ==
  Len(s) >= Len(prefix) /\ SubSeq(s, 1, Len(prefix)) = prefix
Substring(s, n) == SubSeq(s, n + 1, Len(s))

\* The tokens that the identity provider accepts, with the id of their user.
TokenU1 == <<"j", "1">>
TokenU2 == <<"j", "2">>
TokenExpired == <<"j", "0">>
UserOf(token) == IF token = TokenU1 THEN "u1" ELSE "u2"

\* supabase.auth.getUser(token): the possible results. A token that the
\* provider does not accept gives an error; for an accepted one the call gives
\* the user, or fails (the provider cannot be reached).
GetUser(token) ==
  IF token \in { TokenU1, TokenU2 }
  THEN { [ user |-> Some([ id |-> UserOf(token) ]), error |-> FALSE ],
         [ user |-> Undefined, error |-> TRUE ] }
  ELSE { [ user |-> Undefined, error |-> TRUE ] }

\* The two 401 responses of authMiddleware.
UnauthorizedMissing ==
  [ NoRes EXCEPT !.status = 401, !.error = "Unauthorized - Missing or invalid token" ]
UnauthorizedInvalid ==
  [ NoRes EXCEPT !.status = 401, !.error = "Unauthorized - Invalid token" ]

\* authMiddleware without its check of the header: every request goes to
\* getUser with whatever follows the first seven characters.
AuthMiddleware_NoHeaderCheck(q) ==
  [ q EXCEPT !.pc = "authGetUser",
      !.authorization = IF IsDefined(@) THEN @ ELSE Some(<<>>) ]

\* authMiddleware up to its await: 401 when the header is absent, empty or
\* does not start with 'Bearer ', else the call of getUser.
AuthMiddleware(q) ==
  IF \/ ~IsDefined(q.authorization)
     \/ q.authorization[1] = <<>>
     \/ ~StartsWith(q.authorization[1], Bearer)
  THEN Return(q, UnauthorizedMissing)
  ELSE [ q EXCEPT !.pc = "authGetUser" ]

\* z.string().uuid(): the vault ids of the model are the well-formed ones.
IsUuid(s) == s \in Vaults

\* The bounds and the default of limit in pullLogsSchema.
LimitMin == 1
LimitMax == 1000
LimitDefault == 100

\* pullLogsSchema without min(1).max(1000).
pullLogsSchema_NoLimitBounds(body) ==
  IF IsUuid(body.vaultId)
  THEN Some([ vaultId |-> body.vaultId, afterSequence |-> body.afterSequence,
              limit |-> IF IsDefined(body.limit) THEN body.limit[1] ELSE LimitDefault ])
  ELSE Undefined

\* The three schemas: the parsed value, Undefined when parsing fails.
vaultKeySchema(body) ==
  IF IsUuid(body.vaultId) THEN Some(body) ELSE Undefined

pushLogsSchema(body) ==
  IF IsUuid(body.vaultId) THEN Some(body) ELSE Undefined

pullLogsSchema(body) ==
  IF /\ IsUuid(body.vaultId)
     /\ IsDefined(body.limit) => body.limit[1] \in LimitMin..LimitMax
  THEN Some([ vaultId |-> body.vaultId, afterSequence |-> body.afterSequence,
              limit |-> IF IsDefined(body.limit) THEN body.limit[1] ELSE LimitDefault ])
  ELSE Undefined

\* zValidator's response when the schema rejects the body.
ValidationError == [ NoRes EXCEPT !.status = 400, !.error = "ZodError" ]

\* next() of authMiddleware: the route's zValidator, where it has one, and the
\* handler up to its first await. GET /vault-key/:vaultId has no validator
\* and takes vaultId from the path.
RouteNext(q) ==
  CASE q.route = "POST /vault-key" ->
         LET json == vaultKeySchema(q.body)
         IN  IF ~IsDefined(json) THEN Return(q, ValidationError)
             ELSE [ q EXCEPT !.pc = "vaultKeyPostCheck", !.vaultId = json[1].vaultId,
                      !.key = Some([ encryptedVaultKey |-> json[1].encryptedVaultKey,
                                     salt |-> json[1].salt, nonce |-> json[1].nonce ]) ]
    [] q.route = "GET /vault-key/:vaultId" ->
         [ q EXCEPT !.pc = "vaultKeyGet", !.vaultId = q.body.vaultId ]
    [] q.route = "POST /push" ->
         LET json == pushLogsSchema(q.body)
         IN  IF ~IsDefined(json) THEN Return(q, ValidationError)
             ELSE [ q EXCEPT !.pc = "pushReadMax", !.vaultId = json[1].vaultId,
                      !.logs = json[1].logs ]
    [] OTHER ->
         LET json == pullLogsSchema(q.body)
         IN  IF ~IsDefined(json) THEN Return(q, ValidationError)
             ELSE [ q EXCEPT !.pc = "pull", !.vaultId = json[1].vaultId,
                      !.afterSequence = json[1].afterSequence, !.limit = json[1].limit ]

\* authMiddleware from the return of getUser with result r: 401, or the user
\* is set and next() runs.
AuthGetUserReturns(q, r) ==
  IF r.error \/ ~IsDefined(r.user)
  THEN Return(q, UnauthorizedInvalid)
  ELSE RouteNext([ q EXCEPT !.userId = r.user[1].id ])

\* The requests of the specification with authMiddleware: route,
\* Authorization header (Undefined when absent) and body (for the GET, the
\* path parameter).
KeyBody(v) == [ vaultId |-> v, encryptedVaultKey |-> "K1", salt |-> "s1", nonce |-> "kn1" ]
PushBody(v, logs) == [ vaultId |-> v, logs |-> logs ]
PullBody(v, limit) == [ vaultId |-> v, afterSequence |-> Undefined, limit |-> limit ]

AuthRequests ==
  \* no usable header, on every route
  [ route : {"POST /vault-key"},
    authorization : { Undefined, Some(Basic \o TokenU1) },
    body : { KeyBody("v1") } ]
  \cup [ route : {"GET /vault-key/:vaultId"},
         authorization : { Undefined, Some(<<>>) },
         body : { [ vaultId |-> "v1" ] } ]
  \cup [ route : {"POST /push"},
         authorization : { Undefined, Some(Substring(Bearer, 1) \o TokenU1) },
         body : { PushBody("v1", <<LogD>>) } ]
  \cup [ route : {"POST /pull"},
         authorization : { Undefined, Some(SubSeq(Bearer, 1, 6) \o TokenU1) },
         body : { PullBody("v1", Undefined) } ]
  \* a token that the provider rejects
  \cup [ route : {"POST /push"},
         authorization : { Some(Bearer \o TokenExpired), Some(Bearer) },
         body : { PushBody("v1", <<LogD>>) } ]
  \* the token of u1
  \cup [ route : {"POST /vault-key"},
         authorization : { Some(Bearer \o TokenU1) },
         body : { KeyBody("v1"), KeyBody("not-a-uuid") } ]
  \cup [ route : {"GET /vault-key/:vaultId"},
         authorization : { Some(Bearer \o TokenU1) },
         body : { [ vaultId |-> "v1" ] } ]
  \cup [ route : {"POST /push"},
         authorization : { Some(Bearer \o TokenU1) },
         body : { PushBody("v1", <<LogA>>), PushBody("v1", <<LogB, LogA>>),
                  PushBody("not-a-uuid", <<LogD>>) } ]
  \cup [ route : {"POST /pull"},
         authorization : { Some(Bearer \o TokenU1) },
         body : { PullBody("v1", Undefined), PullBody("v1", Some(LimitMin - 1)),
                  PullBody("v1", Some(LimitMax + 1)), PullBody("v1", Some(LimitMin)),
                  PullBody("not-a-uuid", Undefined) } ]
  \* the token of u2
  \cup [ route : {"POST /push"},
         authorization : { Some(Bearer \o TokenU2) },
         body : { PushBody("v1", <<LogA>>) } ]

\* The waiting handler p resumes and runs to q: its next await or its return.
Continues(p, q) ==
  IF q.pc = "done"
  THEN Resumes(p, q)
  ELSE /\ inFlight' = (inFlight (-) SetToBag({p})) (+) SetToBag({q})
       /\ sent' = Idle

\* A request arrives and authMiddleware runs up to its await.
Arrives(requests) ==
  /\ \E in \in requests :
       Enters(AuthMiddleware([ Idle EXCEPT !.pc = "authMiddleware", !.route = in.route,
                                 !.authorization = in.authorization, !.body = in.body ]))
  /\ UNCHANGED <<vaultKeysTbl, syncLogsTbl>>

\* getUser returns; token = authHeader.substring(7).
GetUserReturns ==
  /\ \E p \in BagToSet(inFlight) :
       /\ p.pc = "authGetUser"
       /\ \E r \in GetUser(Substring(p.authorization[1], 7)) :
            Continues(p, AuthGetUserReturns(p, r))
  /\ UNCHANGED <<vaultKeysTbl, syncLogsTbl>>

\* The first statement of a handler that next() has started runs.
HandlerStatement ==
  /\ \E p \in BagToSet(inFlight) :
       \E q \in (CASE p.pc = "vaultKeyPostCheck" -> VaultKeyPostCheck(p, vaultKeysTbl)
                   [] p.pc = "vaultKeyGet" -> VaultKeyGet(p, vaultKeysTbl)
                   [] p.pc = "pushReadMax" -> { PushReadMax(p, syncLogsTbl) }
                   [] p.pc = "pull" -> Pull(p, syncLogsTbl)
                   [] OTHER -> {}) :
         Continues(p, q)
  /\ UNCHANGED <<vaultKeysTbl, syncLogsTbl>>

\* The four routes behind authMiddleware and the validators.
NextAuth ==
  \/ Arrives(AuthRequests)
  \/ GetUserReturns
  \/ HandlerStatement
  \/ PostVaultKeyInsert
  \/ PostPushInsert

SpecAuth == Init /\ [][NextAuth]_vars

\* The Authorization header of q is absent or does not start with 'Bearer '.
NoBearerHeader(q) ==
  ~IsDefined(q.authorization) \/ ~StartsWith(q.authorization[1], Bearer)

\* The handler of the route of q has run a statement or waits to run one.
InHandler(q) ==
  q.pc \in { "vaultKeyPostCheck", "vaultKeyPostInsert", "vaultKeyGet",
             "pushReadMax", "pushInsert", "pull" }

\* C12: a request without a 'Bearer ' header is answered 401 in the step in
\* which it arrives, so it never waits for the identity provider and never
\* reaches a handler; a request whose token the provider does not accept is
\* answered 401 in the step in which getUser returns; a request answered 401
\* never had a user set, and neither kind of step reads for a handler or
\* changes a store; only requests with a 'Bearer ' header and an accepted
\* token are ever in a handler.
C12_UnauthorizedBeforeStores ==
  [][ /\ (sent'.pc = "done" /\ NoBearerHeader(sent'))
           => /\ sent'.res.status = 401
              /\ inFlight' = inFlight
      /\ (sent'.pc = "done" /\ ~NoBearerHeader(sent')
            /\ Substring(sent'.authorization[1], 7) \notin { TokenU1, TokenU2 })
           => sent'.res.status = 401
      /\ (sent'.pc = "done" /\ sent'.res.status = 401 /\ ~NoBearerHeader(sent'))
           => \E p \in BagToSet(inFlight) :
                /\ p.pc = "authGetUser"
                /\ p.authorization = sent'.authorization
                /\ inFlight' = inFlight (-) SetToBag({p})
      /\ (sent'.pc = "done" /\ sent'.res.status = 401)
           => /\ sent'.userId = "none"
              /\ vaultKeysTbl' = vaultKeysTbl /\ syncLogsTbl' = syncLogsTbl
      /\ \A p \in BagToSet(inFlight') :
           InHandler(p) => /\ ~NoBearerHeader(p)
                           /\ Substring(p.authorization[1], 7) \in { TokenU1, TokenU2 }
                           /\ p.userId = UserOf(Substring(p.authorization[1], 7)) ]_vars

\* A request with a header that is no 'Bearer ' header is answered 401 while
\* a request with a token that the provider rejects waits for getUser and the
\* stores hold a vault key and log entries.
C12_Witness ==
  /\ sent.pc = "done" /\ sent.res.status = 401
  /\ IsDefined(sent.authorization) /\ NoBearerHeader(sent)
  /\ \E p \in BagToSet(inFlight) :
       /\ p.pc = "authGetUser"
       /\ Substring(p.authorization[1], 7) \notin { TokenU1, TokenU2 }
  /\ vaultKeysTbl # EmptyBag /\ syncLogsTbl # EmptyBag

\* C13: any two requests answered 401, one for a missing or malformed header
\* and one for a token that the provider rejects, get the same response:
\* consecutive 401 responses have the same status and body.
C13_UnauthorizedResponsesIdentical ==
  [][ (/\ sent.pc = "done" /\ sent.res.status = 401
       /\ sent'.pc = "done" /\ sent'.res.status = 401)
        => sent'.res = sent.res ]_vars

\* The body of q breaks the rules that the claim names: its vaultId is not
\* well-formed or, for a pull, its limit is given and outside 1..1000.
BodyFails(q) ==
  \/ q.body.vaultId \notin { "v1", "v2" }
  \/ /\ q.route = "POST /pull"
     /\ IsDefined(q.body.limit)
     /\ (q.body.limit[1] < 1 \/ q.body.limit[1] > 1000)

\* C17: an authenticated push, pull or vault-key create is answered with the
\* validation error exactly when its body fails validation, and that answer
\* is given in the step in which authMiddleware calls next(): the request
\* never reaches a statement of its handler, and both stores are left as they
\* were.
C17_InvalidBodyRejectedBeforeStores ==
  [][ (/\ sent'.pc = "done"
       /\ sent'.route \in { "POST /vault-key", "POST /push", "POST /pull" }
       /\ sent'.userId \in Users)
        => /\ BodyFails(sent') <=> sent'.res = ValidationError
           /\ BodyFails(sent')
                => /\ \E p \in BagToSet(inFlight) :
                        /\ p.pc = "authGetUser"
                        /\ p.body = sent'.body
                        /\ inFlight' = inFlight (-) SetToBag({p})
                   /\ sent'.currentSequence = 0
                   /\ vaultKeysTbl' = vaultKeysTbl /\ syncLogsTbl' = syncLogsTbl ]_vars

\* A pull with a limit above 1000 is answered with the validation error while
\* the stores hold a vault key and log entries and another request is in a
\* handler.
C17_Witness ==
  /\ Answered("POST /pull")
  /\ sent.res = ValidationError
  /\ IsDefined(sent.body.limit) /\ sent.body.limit[1] > LimitMax
  /\ vaultKeysTbl # EmptyBag /\ syncLogsTbl # EmptyBag
  /\ \E p \in BagToSet(inFlight) : InHandler(p)

\* The responses that report an error.
ErrorStatus == { 400, 401, 404, 409, 500 }

\* C18: a step that changes a store is the step that answers a request with
\* success (200 or 201), so no step of a request that ends with 401, 400,
\* 404, 409 or 500 changes a store: the stores after an error response, and
\* with them what every other request reads, are what they would be had the
\* request not been made. Every response is a success or one of these
\* errors.
C18_ErrorsLeaveStoresUnchanged ==
  [][ /\ (vaultKeysTbl' # vaultKeysTbl \/ syncLogsTbl' # syncLogsTbl)
           => sent'.pc = "done" /\ sent'.res.status \in { 200, 201 }
      /\ (sent'.pc = "done" /\ sent'.res.status \in ErrorStatus)
           => vaultKeysTbl' = vaultKeysTbl /\ syncLogsTbl' = syncLogsTbl
      /\ sent'.pc = "done" => sent'.res.status \in { 200, 201 } \cup ErrorStatus ]_vars

\* A push is answered 500 after the insert of its two entries was rejected,
\* while the stores hold a vault key and log entries and another request is
\* in a handler.
C18_Witness ==
  /\ Answered("POST /push")
  /\ sent.res.status = 500
  /\ Len(sent.logs) = 2
  /\ vaultKeysTbl # EmptyBag /\ syncLogsTbl # EmptyBag
  /\ \E p \in BagToSet(inFlight) : InHandler(p)

(* -------------------- sequence numbering across users ------------------ *)

\* The rows of table tbl owned by user u.
OwnedBy(tbl, u) == Where(tbl, { x \in BagToSet(tbl) : x.userId = u })

\* C21: in every step of a push of user A (its read of the maximum and its
\* insert), the rows added to the log are owned by A, no vault key changes,
\* and for every other user B the log entries and vault keys of B are as
\* before, B's highest sequence is as before, a push of B that arrives next
\* reads the same currentSequence as it would have before the step, and a
\* push of B that waits for its insert keeps its currentSequence and would
\* get the same answer, with the same sequences, as before the step.
C21_SequencesIndependentAcrossUsers ==
  [][ LET q == IF sent'.pc = "done" THEN sent'
               ELSE CHOOSE x \in BagToSet(inFlight' (-) inFlight) : TRUE
      IN  q.route = "POST /push"
            => /\ \A x \in BagToSet(syncLogsTbl' (-) syncLogsTbl) : x.userId = q.userId
               /\ vaultKeysTbl' = vaultKeysTbl
               /\ \A B \in Users \ {q.userId} :
                    /\ OwnedBy(syncLogsTbl', B) = OwnedBy(syncLogsTbl, B)
                    /\ OwnedBy(vaultKeysTbl', B) = OwnedBy(vaultKeysTbl, B)
                    /\ MaxSequenceOf(syncLogsTbl', B) = MaxSequenceOf(syncLogsTbl, B)
                    /\ \A in \in { i \in MixPushInputs : i.userId = B } :
                         LET next == [ Idle EXCEPT !.pc = "pushReadMax",
                                         !.route = "POST /push", !.userId = in.userId,
                                         !.vaultId = in.vaultId, !.logs = in.logs ]
                         IN  PushReadMax(next, syncLogsTbl') = PushReadMax(next, syncLogsTbl)
                    /\ \A p \in BagToSet(inFlight) :
                         (p.userId = B /\ p.pc = "pushInsert")
                           => /\ CopiesIn(p, inFlight') = CopiesIn(p, inFlight)
                              /\ PushInsert(p, syncLogsTbl').q = PushInsert(p, syncLogsTbl).q ]_vars

\* A push of one user is answered with sequence 1 while another user, who
\* has a vault key and stored entries up to a sequence of 2 or more, has a
\* push waiting for its insert.
C21_Witness ==
  /\ Answered("POST /push")
  /\ sent.res.status = 200
  /\ sent.res.logs[1].sequence = 1
  /\ \E B \in Users \ {sent.userId} :
       /\ MaxSequenceOf(syncLogsTbl, B) >= 2
       /\ OwnedBy(vaultKeysTbl, B) # EmptyBag
       /\ \E p \in BagToSet(inFlight) : p.userId = B /\ p.pc = "pushInsert"

====
